---- MODULE Spec2Model ----
(***************************************************************************)
(* Model of the input/output scheduling loop of akg-cli                    *)
(* (src/akg_cli_app/chat.py, class AKGChat; src/akg_cli.py holds the older *)
(* copy of the same loop).                                                 *)
(*                                                                         *)
(* Three asyncio tasks share one event loop: chat_loop itself ("main"),    *)
(* producer and consumer.  A task runs without interruption until it       *)
(* reaches an await that suspends it; `running` names the task that holds  *)
(* the loop, "none" when no task holds it.  A task that another task has   *)
(* woken (queue.put wakes the waiting consumer, a finished task wakes      *)
(* chat_loop) is already on the loop's ready queue, so it runs before any  *)
(* key binding, timer or terminal write, which all need a later iteration  *)
(* of the loop.  The backend call runs in an executor thread and may       *)
(* return at any time.                                                     *)
(*                                                                         *)
(* A text is a sequence of one-character strings.                          *)
(***************************************************************************)
EXTENDS Integers, Sequences, FiniteSets, TLC

VARIABLES
    messages,            \* self.messages: the Conversation
    model,               \* self.model
    busy,                \* self.busy: BusyFlag
    current_request_id,  \* self.current_request_id: RequestEpoch
    exit_requested,      \* self.exit_requested
    panel_visible,       \* self.panel_visible: PanelState.visible
    overlay,             \* what render_panel_prompt returned to the prompt last
    queue,               \* chat_loop's asyncio.Queue
    output,              \* what has been written to the terminal, in order
    soon,                \* print_formatted_text's callbacks the loop has not run
    chain,               \* run_in_terminal's tasks, in the order they will write
    written,             \* history: the call numbers of the blocks of output
    c_written,           \* the block consumer awaits has been written
    running,             \* the task holding the event loop, or "none"
    m_pc,                \* chat_loop's position
    p_pc,                \* producer's position
    p_text,              \* the text prompt_async is returning to producer
    c_pc,                \* consumer's position
    c_text,              \* handle_user_input's text
    request_id,          \* handle_user_input's request_id
    call,                \* the executor's backend call: state and reply
    inputs,              \* this run's user: the texts typed, and how many
    accepted,            \* history: the texts the prompt returned, in order
    accepted_busy,       \* history: BusyFlag when the last text was accepted
    sent,                \* history: the texts producer put on the queue
    taken,               \* history: the texts consumer got from the queue
    outcomes,            \* history: how each backend call returned
    pre,                 \* history: the Conversation when the request started
    f2_hist,             \* history: the panel before each of the last two F2
    ev                   \* history: the last step taken

vars == <<messages, model, busy, current_request_id, exit_requested,
          panel_visible, overlay, f2_hist, queue,
          output, soon, chain, written, c_written, running, m_pc, p_pc,
          p_text, c_pc, c_text, request_id, call, inputs, accepted,
          accepted_busy, sent, taken, outcomes, pre, ev>>

----------------------------------------------------------------------------
(* Bounds of the model                                                     *)

\* how many texts the prompt returns in one run
MaxLines == 2

\* the row limit of a submission (chat.py:285-286)
MaxRows == 10

\* the rows of the panel (chat.py:325)
PanelHeight == 10

\* the least width of the panel (chat.py:324)
MinWidth == 10

\* the length of the clock text "%Y-%m-%d %H:%M:%S" (panels.py:16)
ClockLen == 19

----------------------------------------------------------------------------
(* Texts and the str methods the loop uses                                 *)

NL == "\n"
FF == "\f"

\* str.isspace() on the characters of the model's alphabet
IsSpace(ch) == ch \in {" ", NL, FF, "\t", "\r"}

\* the line boundaries of str.splitlines() among the model's characters
IsLineBreak(ch) == ch \in {NL, FF, "\r"}

RECURSIVE LStrip(_)
LStrip(t) == IF t = <<>> THEN <<>>
             ELSE IF IsSpace(Head(t)) THEN LStrip(Tail(t)) ELSE t

RECURSIVE RStrip(_)
RStrip(t) == IF t = <<>> THEN <<>>
             ELSE IF IsSpace(t[Len(t)]) THEN RStrip(SubSeq(t, 1, Len(t) - 1))
             ELSE t

\* str.strip()
Strip(t) == RStrip(LStrip(t))

LowerChar(ch) ==
    CASE ch = "Q" -> "q" [] ch = "U" -> "u" [] ch = "I" -> "i"
      [] ch = "T" -> "t" [] OTHER -> ch

\* str.lower()
Lower(t) == [i \in 1..Len(t) |-> LowerChar(t[i])]

\* str.count(ch)
RECURSIVE Count(_, _)
Count(t, ch) == IF t = <<>> THEN 0
                ELSE (IF Head(t) = ch THEN 1 ELSE 0) + Count(Tail(t), ch)

\* str.startswith("/")
StartsWithSlash(t) == t # <<>> /\ Head(t) = "/"

\* str.splitlines(): split at every line boundary ("\r\n" is one boundary);
\* no empty last line after a final boundary; "" gives [].
RECURSIVE SplitLinesFrom(_, _)
SplitLinesFrom(t, cur) ==
    IF t = <<>> THEN (IF cur = <<>> THEN <<>> ELSE <<cur>>)
    ELSE IF Head(t) = "\r" /\ Len(t) > 1 /\ t[2] = NL
         THEN <<cur>> \o SplitLinesFrom(Tail(Tail(t)), <<>>)
    ELSE IF IsLineBreak(Head(t))
         THEN <<cur>> \o SplitLinesFrom(Tail(t), <<>>)
    ELSE SplitLinesFrom(Tail(t), Append(cur, Head(t)))

SplitLines(t) == SplitLinesFrom(t, <<>>)

\* lines[:n]
FirstN(lines, n) == SubSeq(lines, 1, IF Len(lines) < n THEN Len(lines) ELSE n)

\* "\n".join(lines)
RECURSIVE JoinNL(_)
JoinNL(lines) ==
    IF lines = <<>> THEN <<>>
    ELSE IF Len(lines) = 1 THEN lines[1]
    ELSE lines[1] \o <<NL>> \o JoinNL(Tail(lines))

----------------------------------------------------------------------------
(* The texts a user submits in the model                                   *)

\* n rows, each the one character ch, separated by "\n"
RECURSIVE Rows(_, _)
Rows(n, ch) == IF n <= 1 THEN <<ch>> ELSE <<ch, NL>> \o Rows(n - 1, ch)

\* n empty rows followed by the row ch
RECURSIVE EmptyRowsThen(_, _)
EmptyRowsThen(n, ch) == IF n = 0 THEN <<ch>> ELSE <<NL>> \o EmptyRowsThen(n - 1, ch)

MsgA == <<"a">>
MsgB == <<"b">>
Blank == <<" ">>
CmdHelp == <<"/", "h", "e", "l", "p">>
CmdExit == <<"/", "e", "x", "i", "t">>
CmdQuit == <<"/", "q", "u", "i", "t">>
CmdClear == <<"/", "c", "l", "e", "a", "r">>
CmdModel == <<"/", "m", "o", "d", "e", "l">>
CmdHistory == <<"/", "h", "i", "s", "t", "o", "r", "y">>
CmdUnknown == <<"/", "x">>
CmdQuitUpper == <<"/", "Q", "U", "I", "T">>
\* MaxRows + 2 rows "a"
LongMsg == Rows(MaxRows + 2, "a")
\* MaxRows empty rows and then "a": its first MaxRows rows are all empty
BlankHead == EmptyRowsThen(MaxRows, "a")
\* MaxRows + 1 rows, the first of which holds a form feed (pasted text)
FormFeedMsg == <<"a", FF, "b", NL>> \o Rows(MaxRows, "c")

\* a run's user types texts of one of these sets
CoreLines == {MsgA, MsgB, Blank, CmdClear, CmdModel}
TextLines == {MsgA, Blank, LongMsg, BlankHead, FormFeedMsg}
DeepLines == {MsgA, CmdClear}
HistLines == {MsgA, CmdClear, CmdHistory}
CmdLines == {MsgA, CmdHelp, CmdHistory, CmdUnknown, CmdExit, CmdQuitUpper}
PanelLines == {MsgA}
EpochLines == {MsgA, Blank, LongMsg, CmdClear}
SlashLines == {MsgA, CmdHelp, CmdHistory, CmdUnknown, CmdClear, CmdModel}

\* the value asyncio puts on the queue to close it (None), distinct from
\* every text
NoneItem == <<"None">>

Replies == {"r"}

ModelChat == "deepseek-chat"
ModelCoder == "deepseek-coder"

UserTurn(t) == [role |-> "user", content |-> t]
AssistantTurn(r) == [role |-> "assistant", content |-> <<r>>]

\* one block of terminal output
Note(tag) == [tag |-> tag, n |-> 0, s |-> ""]
NoteN(tag, n) == [tag |-> tag, n |-> n, s |-> ""]
NoteS(tag, s) == [tag |-> tag, n |-> 0, s |-> s]

Ev(op, t) == [op |-> op, text |-> t]

----------------------------------------------------------------------------
(* AKGChat.handle_command_ui                                               *)

\* the other model identifier
OtherModel(m) == IF m = ModelChat THEN ModelCoder ELSE ModelChat

\* a report that counts exchanges, not turns
HistoryCountPairs(msgs) == Len(msgs) \div 2

\* chat.py:180: the count a /history report states
HistoryCount(msgs) == Len(msgs)

\* a handler that treats an unknown command as the end of the session
HandleCommandUIStrict(user_input, msgs, mdl) ==
    LET cmd == Lower(Strip(user_input)) IN
    IF cmd = CmdHelp
    THEN [messages |-> msgs, model |-> mdl, notes |-> <<Note("help")>>,
          ret |-> TRUE]
    ELSE IF cmd = CmdHistory
    THEN [messages |-> msgs, model |-> mdl,
          notes |-> <<NoteN("history", Len(msgs))>>, ret |-> TRUE]
    ELSE IF cmd \in {CmdExit, CmdQuit}
    THEN [messages |-> msgs, model |-> mdl, notes |-> <<Note("bye")>>,
          ret |-> FALSE]
    ELSE [messages |-> msgs, model |-> mdl,
          notes |-> <<Note("unknown"), Note("hint")>>, ret |-> FALSE]

\* a router that empties the Conversation on every command
HandleCommandUIForgets(user_input, msgs, mdl) ==
    [messages |-> <<>>, model |-> mdl, notes |-> <<Note("help")>>, ret |-> TRUE]

\* handle_command_ui(user_input) on Conversation msgs and model mdl: the new
\* values, the blocks it emits, in order, and the return value
HandleCommandUI(user_input, msgs, mdl) ==
    LET cmd == Lower(Strip(user_input)) IN
    IF cmd = CmdHelp
    THEN [messages |-> msgs, model |-> mdl, notes |-> <<Note("help")>>,
          ret |-> TRUE]
    ELSE IF cmd \in {CmdExit, CmdQuit}
    THEN [messages |-> msgs, model |-> mdl, notes |-> <<Note("bye")>>,
          ret |-> FALSE]
    ELSE IF cmd = CmdClear
    THEN [messages |-> <<>>, model |-> mdl, notes |-> <<Note("cleared")>>,
          ret |-> TRUE]
    ELSE IF cmd = CmdModel
    THEN [messages |-> msgs, model |-> OtherModel(mdl),
          notes |-> <<NoteS("model", OtherModel(mdl))>>, ret |-> TRUE]
    ELSE IF cmd = CmdHistory
    THEN [messages |-> msgs, model |-> mdl,
          notes |-> <<NoteN("history", HistoryCount(msgs))>>, ret |-> TRUE]
    ELSE [messages |-> msgs, model |-> mdl,
          notes |-> <<Note("unknown"), Note("hint")>>, ret |-> TRUE]

----------------------------------------------------------------------------
(* The panel: panels.py and AKGChat.render_panel_prompt                    *)

Max(a, b) == IF a > b THEN a ELSE b
Min(a, b) == IF a < b THEN a ELSE b

\* terminal widths (shutil.get_terminal_size().columns) of the model: one
\* below the least panel width, one wider than the time panel's text
NarrowColumns == 8
WideColumns == 26

\* chat.py:324
Width(columns) == Max(MinWidth, columns)

Spaces(n) == [i \in 1..n |-> " "]

\* a padding that is one character short
LJustShort(t, w) == IF Len(t) >= w - 1 THEN t ELSE t \o Spaces(w - 1 - Len(t))

\* str.ljust(w)
LJust(t, w) == IF Len(t) >= w THEN t ELSE t \o Spaces(w - Len(t))

\* t[:w]
FirstChars(t, w) == SubSeq(t, 1, Min(Len(t), w))

\* panels.py:8-9: PanelProvider.render
PanelProviderRender(width, height) == [i \in 1..height |-> <<>>]

\* the clock text of panels.py:16, every character of it the digit d
Clock(d) == [i \in 1..ClockLen |-> d]

\* panels.py:15-19: TimePanel.render at clock text now (the three
\* characters of the label stand as "T", "M", ":")
TimePanelRender(width, height, now) ==
    [i \in 1..height |->
        IF i = 1 THEN <<" ", " ", "T", "M", ":">> \o now ELSE <<>>]

\* the providers of the model: the default one at two clock readings, the
\* base class, and subclasses that return one line fewer, one line more
\* and lines wider than asked; a line holds no line end, and the provider
\* is never None (chat.py:41 is the only assignment)
Panels == {"time1", "time2", "base", "fewer", "more", "wider"}

\* panel_provider.render(width, height) of provider p
ProviderRender(p, width, height) ==
    CASE p = "time1" -> TimePanelRender(width, height, Clock("1"))
      [] p = "time2" -> TimePanelRender(width, height, Clock("2"))
      [] p = "base"  -> PanelProviderRender(width, height)
      [] p = "fewer" -> [i \in 1..height - 1 |-> <<"f">>]
      [] p = "more"  -> [i \in 1..height + 1 |-> <<"m">>]
      [] OTHER       -> [i \in 1..height |-> [j \in 1..width + 2 |-> "w"]]

\* a panel hidden by every F2
ToggleOff(v) == FALSE

\* chat.py:84: not self.panel_visible
Toggle(v) == ~v

\* chat.py:321-332: render_panel_prompt, given the terminal's columns and
\* the provider: the fragments of the prompt's message, one per row
RenderPanelPrompt(visible, p, columns) ==
    IF ~visible \/ p = "none" THEN <<>>
    ELSE LET width  == Width(columns)
             height == PanelHeight
             lines  == ProviderRender(p, width, height)
         IN  [i \in 1..height |->
                LJust(FirstChars(IF i <= Len(lines) THEN lines[i] ELSE <<>>, width),
                      width) \o <<NL>>]

\* the prompt draws its message: render_panel_prompt is called with the
\* provider and the terminal as they are then
Rendered(visible) ==
    \E p \in inputs.panels, c \in inputs.columns :
        overlay' = [width |-> Width(c), rows |-> RenderPanelPrompt(visible, p, c)]

\* the rows the prompt reserves for the overlay: the lines its message ends
ReservedRows(o) == Len(SelectSeq(o.rows, LAMBDA f : Count(f, NL) > 0))

----------------------------------------------------------------------------
(* Initial state: AKGChat.__init__ has run, chat_loop has not started      *)

InitAll(lines, max, panels, columns) ==
    /\ inputs = [lines |-> lines, max |-> max, panels |-> panels,
                 columns |-> columns]
    /\ panel_visible = TRUE
    /\ overlay = [width |-> 0, rows |-> <<>>]
    /\ f2_hist = <<>>
    /\ messages = <<>>
    /\ model = ModelChat
    /\ busy = FALSE
    /\ current_request_id = 0
    /\ exit_requested = FALSE
    /\ queue = <<>>
    /\ output = <<>>
    /\ soon = <<>>
    /\ chain = <<>>
    /\ written = <<>>
    /\ c_written = FALSE
    /\ running = "main"
    /\ m_pc = "m_start"
    /\ p_pc = "p_new"
    /\ p_text = <<>>
    /\ c_pc = "c_new"
    /\ c_text = <<>>
    /\ request_id = 0
    /\ call = [state |-> "idle", reply |-> ""]
    /\ accepted = <<>>
    /\ accepted_busy = FALSE
    /\ sent = <<>>
    /\ taken = <<>>
    /\ outcomes = <<>>
    /\ pre = <<>>
    /\ ev = Ev("init", <<>>)

\* runs with the default panel on a narrow terminal
InitWith(lines, max) == InitAll(lines, max, {"time1"}, {NarrowColumns})

Init == InitWith(CoreLines, MaxLines)

\* runs over the panels and terminal widths, with one text
InitPanel == InitAll(PanelLines, MaxLines, Panels, {NarrowColumns, WideColumns})

\* runs over the texts that exercise the row limit
InitText == InitWith(TextLines, MaxLines)

\* longer runs over fewer texts
InitDeep == InitWith(DeepLines, MaxLines + 1)

\* longer runs over the texts that read and empty the Conversation
InitHist == InitWith(HistLines, MaxLines + 1)

\* runs over a message, a blank text, a text over the row limit and a
\* command
InitEpoch == InitWith(EpochLines, MaxLines)

\* runs over the commands that do not end the session
InitSlash == InitWith(SlashLines, MaxLines)

\* runs over the commands that end the session and those that do not
InitCmd == InitWith(CmdLines, MaxLines)

\* session.app.is_running: true from prompt_async's start until it has
\* returned to producer
IsRunning == p_pc \in {"p_prompt", "p_accepted", "p_eof"}

\* task t holds the event loop
CanRun(t) == running = t

\* what the loop's ready queue holds: a callback of print_formatted_text
\* (chat.py:309), or the task another task woke: consumer by queue.put
\* (chat.py:255, 291, 297) or by the end of the write it awaits
\* (chat.py:319), chat_loop by the end of the task it awaits (chat.py:296,
\* 298)
Woken ==
    IF soon # <<>> THEN "terminal"
    ELSE IF c_written THEN "consumer"
    ELSE IF c_pc = "c_get" /\ queue # <<>> THEN "consumer"
    ELSE IF m_pc = "m_wait_producer" /\ p_pc = "p_done" THEN "main"
    ELSE IF m_pc = "m_wait_consumer" /\ c_pc = "c_done" THEN "main"
    ELSE "none"

\* the loop runs woken task t next
Runs(t) == running = "none" /\ Woken = t

\* the loop is idle: it may run a key binding, a timer or a terminal write
Free == running = "none" /\ Woken = "none"

----------------------------------------------------------------------------
(* Output: AKGChat.emit and AKGChat.emit_in_terminal                       *)

\* the number of the next emit call
NextId == Len(written) + Len(soon) + Len(chain) + 1

\* blocks as entries of the terminal's queues, numbered from NextId on
Entries(notes, by) ==
    [i \in 1..Len(notes) |-> [note |-> notes[i], id |-> NextId + i - 1, by |-> by]]

\* chat.py:300-309: emit(...) of each block of notes in turn.
\* print_formatted_text writes at once when no application runs; while the
\* prompt runs it hands the write to the loop (call_soon_threadsafe), which
\* starts run_in_terminal for it on its next iteration.
Emit(notes, app_running) ==
    IF app_running
    THEN /\ soon' = soon \o Entries(notes, "emit")
         /\ UNCHANGED <<output, written, chain>>
    ELSE /\ output' = output \o notes
         /\ written' = written \o [i \in 1..Len(notes) |-> NextId + i - 1]
         /\ UNCHANGED <<soon, chain>>

\* chat.py:311-319: emit_in_terminal(note) up to its await: run_in_terminal
\* has made the task that will write the block
EmitInTerminal(note) ==
    /\ chain' = chain \o Entries(<<note>>, "consumer")
    /\ UNCHANGED <<output, written, soon>>

\* the loop runs print_formatted_text's callback: run_in_terminal makes the
\* task of the write, behind the tasks made before
TerminalStart ==
    /\ running = "none"
    /\ soon # <<>>
    /\ chain' = Append(chain, Head(soon))
    /\ soon' = Tail(soon)
    /\ UNCHANGED <<inputs, panel_visible, overlay, f2_hist, messages, model, busy, current_request_id, exit_requested,
                   queue, output, written, c_written, running, m_pc, p_pc,
                   p_text, c_pc, c_text, request_id, call, accepted,
                   accepted_busy, sent, taken, outcomes, pre, ev>>

\* the oldest task of run_in_terminal writes its block above the prompt;
\* the write consumer awaits wakes consumer
TerminalWrite ==
    /\ Free
    /\ chain # <<>>
    /\ output' = Append(output, Head(chain).note)
    /\ written' = Append(written, Head(chain).id)
    /\ c_written' = (Head(chain).by = "consumer")
    /\ chain' = Tail(chain)
    /\ UNCHANGED <<inputs, panel_visible, overlay, f2_hist, messages, model, busy, current_request_id, exit_requested,
                   queue, soon, running, m_pc, p_pc, p_text, c_pc, c_text,
                   request_id, call, accepted, accepted_busy, sent, taken,
                   outcomes, pre, ev>>

----------------------------------------------------------------------------
(* chat_loop: the body that starts the two tasks and closes the queue      *)

\* chat.py:249-296: the welcome text, both tasks created, await producer_task
MainStart ==
    /\ m_pc = "m_start"
    /\ CanRun("main")
    /\ Emit(<<Note("welcome")>>, FALSE)
    /\ m_pc' = "m_wait_producer"
    /\ c_pc' = "c_get"
    /\ p_pc' = "p_top"
    /\ running' = "none"
    /\ ev' = Ev("start", <<>>)
    /\ UNCHANGED <<inputs, panel_visible, overlay, f2_hist, messages, model, busy, current_request_id, exit_requested,
                   queue, c_written, p_text, c_text, request_id, call, accepted,
                   accepted_busy, sent, taken, outcomes, pre>>

\* chat.py:296-298: producer has returned; put None, await consumer_task
MainPutSentinel ==
    /\ m_pc = "m_wait_producer"
    /\ p_pc = "p_done"
    /\ Runs("main")
    /\ queue' = Append(queue, NoneItem)
    /\ m_pc' = "m_wait_consumer"
    /\ ev' = Ev("close", <<>>)
    /\ UNCHANGED <<inputs, panel_visible, overlay, f2_hist, messages, model, busy, current_request_id, exit_requested,
                   output, soon, chain, written, c_written, running, p_pc, p_text, c_pc, c_text, request_id,
                   call, accepted, accepted_busy, sent, taken, outcomes, pre>>

\* chat.py:298: consumer has returned, chat_loop ends
MainFinish ==
    /\ m_pc = "m_wait_consumer"
    /\ c_pc = "c_done"
    /\ Runs("main")
    /\ m_pc' = "m_done"
    /\ ev' = Ev("finish", <<>>)
    /\ UNCHANGED <<inputs, panel_visible, overlay, f2_hist, messages, model, busy, current_request_id, exit_requested,
                   queue, output, soon, chain, written, c_written, running, p_pc, p_text, c_pc, c_text,
                   request_id, call, accepted, accepted_busy, sent, taken,
                   outcomes, pre>>

\* chat.py:347-354: Ctrl-C while no prompt is on the terminal (the key
\* bindings of chat.py:70-79 belong to the prompt) is SIGINT: it ends
\* asyncio.run with KeyboardInterrupt, main says goodbye and exits
SigInt ==
    /\ m_pc \in {"m_wait_producer", "m_wait_consumer"}
    /\ running = "none"
    /\ ~IsRunning
    /\ m_pc' = "m_exit"
    /\ running' = "exit"
    /\ ev' = Ev("sigint", <<>>)
    /\ UNCHANGED <<inputs, panel_visible, overlay, f2_hist, messages, model, busy, current_request_id, exit_requested,
                   queue, output, soon, chain, written, c_written, p_pc, p_text,
                   c_pc, c_text, request_id, call, accepted, accepted_busy,
                   sent, taken, outcomes, pre>>

----------------------------------------------------------------------------
(* producer                                                                *)

\* chat.py:269-270: when producer starts prompt_async the prompt shows what
\* render_panel_prompt returns
PromptShown ==
    IF p_pc' = "p_prompt" /\ p_pc # "p_prompt" THEN Rendered(panel_visible)
    ELSE UNCHANGED overlay

\* chat.py:262-268: the top of producer's loop, up to its next suspension
ProducerTop ==
    /\ p_pc = "p_top"
    /\ Free \/ CanRun("producer")
    /\ p_pc' = IF exit_requested THEN "p_done"
               ELSE IF busy THEN "p_sleep" ELSE "p_prompt"
    /\ running' = "none"
    /\ ev' = Ev("top", <<>>)
    /\ PromptShown
    /\ UNCHANGED <<inputs, panel_visible, f2_hist, messages, model, busy, current_request_id, exit_requested,
                   queue, output, soon, chain, written, c_written, m_pc, p_text, c_pc, c_text, request_id, call,
                   accepted, accepted_busy, sent, taken, outcomes, pre>>

\* chat.py:264-268: asyncio.sleep(0.05) is over
ProducerWake ==
    /\ p_pc = "p_sleep"
    /\ Free
    /\ IF exit_requested
       THEN p_pc' = "p_done" /\ ev' = Ev("wake", <<>>)
       ELSE IF busy
       THEN p_pc' = p_pc /\ ev' = ev
       ELSE p_pc' = "p_prompt" /\ ev' = Ev("wake", <<>>)
    /\ PromptShown
    /\ UNCHANGED <<inputs, panel_visible, f2_hist, messages, model, busy, current_request_id, exit_requested,
                   queue, output, soon, chain, written, c_written, running, m_pc, p_text, c_pc, c_text,
                   request_id, call, accepted, accepted_busy, sent, taken,
                   outcomes, pre>>

\* the prompt hands text t to producer (Application.exit(result=t))
Accept(t) ==
    /\ p_text' = t
    /\ p_pc' = "p_accepted"
    /\ accepted' = Append(accepted, t)
    /\ accepted_busy' = busy
    /\ ev' = Ev("accept", t)
    /\ UNCHANGED <<inputs, panel_visible, overlay, f2_hist, messages, model, busy, current_request_id, exit_requested,
                   queue, output, soon, chain, written, c_written, running, m_pc, c_pc, c_text, request_id,
                   call, sent, taken, outcomes, pre>>

\* chat.py:63-68: the Enter key binding
EnterKey(t) ==
    /\ p_pc = "p_prompt"
    /\ Free
    /\ Len(accepted) < inputs.max
    /\ Strip(t) # <<>>
    /\ Accept(t)

\* chat.py:269-279: prompt_async returns a text accepted by a binding of the
\* session other than Enter (accept-line); it may be blank
AcceptLine(t) ==
    /\ p_pc = "p_prompt"
    /\ Free
    /\ Len(accepted) < inputs.max
    /\ Accept(t)

\* an epoch that stays as it is
SameRequestId(id) == id

\* chat.py:74, 200: self.current_request_id += 1
NextRequestId(id) == id + 1

\* chat.py:70-79: the Ctrl-C key binding
CtrlC ==
    /\ p_pc = "p_prompt"
    /\ Free
    /\ IF busy
       THEN /\ current_request_id' = NextRequestId(current_request_id)
            /\ busy' = FALSE
            /\ Emit(<<Note("interrupted")>>, IsRunning)
            /\ ev' = Ev("cancel", <<>>)
            /\ UNCHANGED <<exit_requested, p_pc, p_text>>
       ELSE /\ exit_requested' = TRUE
            /\ p_text' = <<>>
            /\ p_pc' = "p_accepted"
            /\ ev' = Ev("interrupt_idle", <<>>)
            /\ UNCHANGED <<current_request_id, busy, output, soon, chain, written>>
    /\ UNCHANGED <<inputs, panel_visible, overlay, f2_hist, messages, model, queue, c_written, running, m_pc, c_pc, c_text,
                   request_id, call, accepted, accepted_busy, sent, taken,
                   outcomes, pre>>

\* the panel as the prompt shows it
PanelShown == [visible |-> panel_visible, rows |-> ReservedRows(overlay)]

\* chat.py:81-85: the F2 key binding; invalidate() makes the prompt draw
\* its message again
F2 ==
    /\ p_pc = "p_prompt"
    /\ Free
    /\ panel_visible' = Toggle(panel_visible)
    /\ Rendered(Toggle(panel_visible))
    /\ f2_hist' = IF f2_hist = <<>> THEN <<PanelShown>>
                  ELSE <<f2_hist[Len(f2_hist)], PanelShown>>
    /\ ev' = Ev("f2", <<>>)
    /\ UNCHANGED <<inputs, messages, model, busy, current_request_id, exit_requested,
                   queue, output, soon, chain, written, c_written, running,
                   m_pc, p_pc, p_text, c_pc, c_text, request_id, call,
                   accepted, accepted_busy, sent, taken, outcomes, pre>>

\* chat.py:276: refresh_interval=1.0: the prompt draws its message again
PanelRefresh ==
    /\ p_pc = "p_prompt"
    /\ Free
    /\ Rendered(panel_visible)
    /\ ev' = Ev("refresh", <<>>)
    /\ UNCHANGED <<inputs, panel_visible, f2_hist, messages, model, busy,
                   current_request_id, exit_requested, queue, output, soon,
                   chain, written, c_written, running, m_pc, p_pc, p_text,
                   c_pc, c_text, request_id, call, accepted, accepted_busy,
                   sent, taken, outcomes, pre>>

\* chat.py:280-281: end of input at the prompt (EOFError)
CtrlD ==
    /\ p_pc = "p_prompt"
    /\ Free
    /\ p_pc' = "p_eof"
    /\ ev' = Ev("eof", <<>>)
    /\ UNCHANGED <<inputs, panel_visible, overlay, f2_hist, messages, model, busy, current_request_id, exit_requested,
                   queue, output, soon, chain, written, c_written, running, m_pc, p_text, c_pc, c_text,
                   request_id, call, accepted, accepted_busy, sent, taken,
                   outcomes, pre>>

\* prompt_async returns to producer: the application has waited for the
\* writes of run_in_terminal that were under way (chat.py:269-281)
PromptReturns ==
    /\ running = "none"
    /\ soon = <<>>
    /\ chain = <<>>
    /\ Woken = "none" \/ c_written

\* chat.py:280-281: producer catches EOFError and returns
ProducerEOF ==
    /\ p_pc = "p_eof"
    /\ PromptReturns
    /\ p_pc' = "p_done"
    /\ ev' = Ev("eof_return", <<>>)
    /\ UNCHANGED <<inputs, panel_visible, overlay, f2_hist, messages, model, busy, current_request_id, exit_requested,
                   queue, output, soon, chain, written, c_written, running, m_pc, p_text, c_pc, c_text,
                   request_id, call, accepted, accepted_busy, sent, taken,
                   outcomes, pre>>

\* chat.py:285: more rows than the limit
TooLong(text) == Count(text, NL) + 1 > MaxRows

\* chat.py:286: the text cut to the limit
Truncate(text) == JoinNL(FirstN(SplitLines(text), MaxRows))

\* chat.py:283: the blank test
IsBlank(text) == Strip(text) = <<>>

\* chat.py:291: queue.put
QueuePut(q, item) == Append(q, item)

\* chat.py:283-291: producer resumes with the prompt's text
ProducerRoute ==
    /\ p_pc = "p_accepted"
    /\ PromptReturns
    /\ LET text == IF TooLong(p_text) THEN Truncate(p_text) ELSE p_text
           cut  == IF TooLong(p_text) THEN <<Note("truncated")>> ELSE <<>>
           r    == HandleCommandUI(text, messages, model)
       IN
       IF IsBlank(p_text)
       THEN /\ p_pc' = "p_top"
            /\ running' = "producer"
            /\ ev' = Ev("discard", p_text)
            /\ UNCHANGED <<messages, model, output, soon, chain, written,
                           exit_requested, queue, sent>>
       ELSE IF StartsWithSlash(text)
       THEN /\ messages' = r.messages
            /\ model' = r.model
            /\ Emit(cut \o r.notes, FALSE)
            /\ IF r.ret
               THEN /\ queue' = QueuePut(queue, text)
                    /\ sent' = Append(sent, text)
                    /\ p_pc' = "p_top"
                    /\ running' = "producer"
                    /\ ev' = Ev("producer_cmd", p_text)
                    /\ UNCHANGED exit_requested
               ELSE /\ exit_requested' = TRUE
                    /\ p_pc' = "p_done"
                    /\ running' = "none"
                    /\ ev' = Ev("producer_exit", p_text)
                    /\ UNCHANGED <<queue, sent>>
       ELSE /\ Emit(cut, FALSE)
            /\ queue' = QueuePut(queue, text)
            /\ sent' = Append(sent, text)
            /\ p_pc' = "p_top"
            /\ running' = "producer"
            /\ ev' = Ev("producer_msg", p_text)
            /\ UNCHANGED <<messages, model, exit_requested>>
    /\ UNCHANGED <<inputs, panel_visible, overlay, f2_hist, busy, current_request_id, c_written, m_pc, p_text,
                   c_pc, c_text, request_id, call, accepted, accepted_busy,
                   taken, outcomes, pre>>

----------------------------------------------------------------------------
(* consumer and AKGChat.handle_user_input                                  *)

NoCall == [state |-> "idle", reply |-> ""]

\* a queue.get that takes the newest item
QueueGetNewest(q) == [item |-> q[Len(q)], rest |-> SubSeq(q, 1, Len(q) - 1)]

\* chat.py:255: queue.get takes the oldest item
QueueGet(q) == [item |-> Head(q), rest |-> Tail(q)]

\* a handler without the epoch test
StaleNever(rid, cur) == FALSE

\* chat.py:212, 224, 235: the result belongs to a superseded request
Stale(rid, cur) == rid # cur

\* a failure path without the roll-back
PopNone(msgs) == msgs

\* chat.py:232-233, 241-242: the last turn removed, if there is one
PopLast(msgs) == IF msgs # <<>> THEN SubSeq(msgs, 1, Len(msgs) - 1) ELSE msgs

\* a finally clause with the test turned round
FinallyIfStale(rid, cur, b) == IF rid # cur THEN FALSE ELSE b

\* a finally clause that leaves the flag as it is
FinallyKeep(rid, cur, b) == b

\* chat.py:243-245: the finally clause
Finally(rid, cur, b) == IF rid = cur THEN FALSE ELSE b

\* handle_user_input has returned: consumer is at queue.get again, and keeps
\* the loop when an item is waiting
Returned(q) ==
    /\ c_pc' = "c_get"
    /\ running' = IF q = <<>> THEN "none" ELSE "consumer"

\* a consumer that takes None for a text
IsNoneNever(item) == FALSE

\* chat.py:256: text is None
IsNone(item) == item = NoneItem

\* chat.py:254-257: consumer takes the next item
ConsumerGet ==
    /\ c_pc = "c_get"
    /\ queue # <<>>
    /\ Runs("consumer") \/ CanRun("consumer")
    /\ LET g == QueueGet(queue) IN
       /\ queue' = g.rest
       /\ IF IsNone(g.item)
          THEN /\ c_pc' = "c_done"
               /\ running' = "none"
               /\ UNCHANGED <<c_text, taken>>
          ELSE /\ c_pc' = "c_handle"
               /\ running' = "consumer"
               /\ c_text' = g.item
               /\ taken' = Append(taken, g.item)
       /\ ev' = Ev("get", g.item)
    /\ UNCHANGED <<inputs, panel_visible, overlay, f2_hist, messages, model, busy, current_request_id, exit_requested,
                   output, soon, chain, written, c_written, m_pc, p_pc, p_text, request_id, call, accepted,
                   accepted_busy, sent, outcomes, pre>>

\* chat.py:189-196: a command is routed; a message is shown
ConsumerHandle ==
    /\ c_pc = "c_handle"
    /\ CanRun("consumer")
    /\ IF StartsWithSlash(c_text)
       THEN LET r == HandleCommandUI(c_text, messages, model) IN
            /\ messages' = r.messages
            /\ model' = r.model
            /\ Emit(r.notes, IsRunning)
            /\ exit_requested' = (exit_requested \/ ~r.ret)
            /\ Returned(queue)
            /\ ev' = Ev("consumer_cmd", c_text)
       ELSE /\ IF IsRunning
               THEN /\ EmitInTerminal(Note("user"))
                    /\ c_pc' = "c_emit_user"
                    /\ running' = "none"
               ELSE /\ Emit(<<Note("user")>>, FALSE)
                    /\ c_pc' = "c_append"
                    /\ running' = "consumer"
            /\ ev' = Ev("show", c_text)
            /\ UNCHANGED <<messages, model, exit_requested>>
    /\ UNCHANGED <<inputs, panel_visible, overlay, f2_hist, busy, current_request_id, queue, c_written, m_pc, p_pc,
                   p_text, c_text, request_id, call, accepted, accepted_busy,
                   sent, taken, outcomes, pre>>

\* chat.py:194: emit_in_terminal has written the user's message
ConsumerShown ==
    /\ c_pc = "c_emit_user"
    /\ Runs("consumer")
    /\ c_written
    /\ c_written' = FALSE
    /\ c_pc' = "c_append"
    /\ running' = "consumer"
    /\ ev' = Ev("shown", c_text)
    /\ UNCHANGED <<inputs, panel_visible, overlay, f2_hist, messages, model, busy, current_request_id, exit_requested,
                   queue, output, soon, chain, written, m_pc, p_pc, p_text,
                   c_text, request_id, call, accepted, accepted_busy, sent,
                   taken, outcomes, pre>>

\* chat.py:197-211: the request starts
ConsumerAppend ==
    /\ c_pc = "c_append"
    /\ CanRun("consumer")
    /\ pre' = messages
    /\ messages' = Append(messages, UserTurn(c_text))
    /\ busy' = TRUE
    /\ current_request_id' = NextRequestId(current_request_id)
    /\ request_id' = NextRequestId(current_request_id)
    /\ IF IsRunning
       THEN /\ EmitInTerminal(Note("thinking"))
            /\ c_pc' = "c_emit_thinking"
            /\ UNCHANGED call
       ELSE /\ Emit(<<Note("thinking")>>, FALSE)
            /\ c_pc' = "c_await"
            /\ call' = [state |-> "running", reply |-> ""]
    /\ running' = "none"
    /\ ev' = Ev("request", c_text)
    /\ UNCHANGED <<inputs, panel_visible, overlay, f2_hist, model, exit_requested, queue, c_written, m_pc, p_pc,
                   p_text, c_text, accepted, accepted_busy, sent, taken,
                   outcomes>>

\* chat.py:203-211: "thinking" is written, the backend call goes to the
\* executor
ConsumerCall ==
    /\ c_pc = "c_emit_thinking"
    /\ Runs("consumer")
    /\ c_written
    /\ c_written' = FALSE
    /\ call' = [state |-> "running", reply |-> ""]
    /\ c_pc' = "c_await"
    /\ ev' = Ev("call", c_text)
    /\ UNCHANGED <<inputs, panel_visible, overlay, f2_hist, messages, model, busy, current_request_id, exit_requested,
                   queue, output, soon, chain, written, running, m_pc, p_pc,
                   p_text, c_text, request_id, accepted, accepted_busy, sent,
                   taken, outcomes, pre>>

\* api.py:26-38: DeepSeekAPI.chat returns a reply or raises, in its thread
BackendReturn(kind, r) ==
    /\ call.state = "running"
    /\ call' = [state |-> kind, reply |-> IF kind = "ok" THEN r ELSE ""]
    /\ outcomes' = Append(outcomes, [kind |-> kind, reply |-> IF kind = "ok" THEN r ELSE ""])
    /\ UNCHANGED <<inputs, panel_visible, overlay, f2_hist, messages, model, busy, current_request_id, exit_requested,
                   queue, output, soon, chain, written, c_written, running, m_pc, p_pc, p_text, c_pc, c_text,
                   request_id, accepted, accepted_busy, sent, taken, pre, ev>>

\* chat.py:222: the assistant turn is appended, then the finally clause
CommitOk ==
    /\ messages' = Append(messages, AssistantTurn(call.reply))
    /\ busy' = Finally(request_id, current_request_id, busy)
    /\ call' = NoCall
    /\ Returned(queue)
    /\ ev' = Ev("commit_ok", c_text)

\* chat.py:232-233, 241-245: the roll-back, then the finally clause
CommitFail ==
    /\ messages' = PopLast(messages)
    /\ busy' = Finally(request_id, current_request_id, busy)
    /\ call' = NoCall
    /\ Returned(queue)
    /\ ev' = Ev("commit_fail", c_text)

\* an await that a cancel ends as well
FutureDoneOrStale(c, rid, cur) == c.state \in {"ok", "http", "exc"} \/ rid # cur

\* chat.py:209-211: the await of the executor's future ends when the call
\* has returned or raised, and on nothing else
FutureDone(c, rid, cur) == c.state \in {"ok", "http", "exc"}

\* chat.py:209-245: the executor's future is done and handle_user_input
\* resumes
ConsumerResume ==
    /\ c_pc = "c_await"
    /\ FutureDone(call, request_id, current_request_id)
    /\ Free
    /\ IF Stale(request_id, current_request_id)
       THEN /\ busy' = Finally(request_id, current_request_id, busy)
            /\ call' = NoCall
            /\ Returned(queue)
            /\ ev' = Ev("drop", c_text)
            /\ UNCHANGED <<messages, output, soon, chain, written>>
       ELSE IF IsRunning
       THEN /\ EmitInTerminal(CASE call.state = "ok" -> Note("reply_head")
                                 [] call.state = "http" -> Note("api_error")
                                 [] OTHER -> Note("error"))
            /\ c_pc' = CASE call.state = "ok" -> "c_ok1"
                         [] call.state = "http" -> "c_http1"
                         [] OTHER -> "c_exc1"
            /\ ev' = Ev("resume", c_text)
            /\ UNCHANGED <<messages, busy, call, running>>
       ELSE IF call.state = "ok"
       THEN /\ Emit(<<Note("reply_head"), Note("reply"), Note("reply_end")>>, FALSE)
            /\ CommitOk
       ELSE /\ Emit(IF call.state = "http"
                    THEN <<Note("api_error"), Note("api_error_body")>>
                    ELSE <<Note("error")>>, FALSE)
            /\ CommitFail
    /\ UNCHANGED <<inputs, panel_visible, overlay, f2_hist, model, current_request_id, exit_requested, queue,
                   c_written, m_pc, p_pc, p_text, c_text, request_id, accepted,
                   accepted_busy, sent, taken, outcomes, pre>>

\* chat.py:215-217, 227-228: one emit_in_terminal is done and the next
\* begins
ConsumerEmitNext ==
    /\ c_pc \in {"c_ok1", "c_ok2", "c_http1"}
    /\ Runs("consumer")
    /\ c_written
    /\ c_written' = FALSE
    /\ EmitInTerminal(CASE c_pc = "c_ok1" -> Note("reply")
                         [] c_pc = "c_ok2" -> Note("reply_end")
                         [] OTHER -> Note("api_error_body"))
    /\ c_pc' = CASE c_pc = "c_ok1" -> "c_ok2"
                 [] c_pc = "c_ok2" -> "c_ok3"
                 [] OTHER -> "c_http2"
    /\ ev' = Ev("emit", c_text)
    /\ UNCHANGED <<inputs, panel_visible, overlay, f2_hist, messages, model, busy, current_request_id, exit_requested,
                   queue, running, m_pc, p_pc, p_text, c_text, request_id,
                   call, accepted, accepted_busy, sent, taken, outcomes, pre>>

\* chat.py:217-222, 243-245: the last emit_in_terminal of a reply is done
ConsumerCommitOk ==
    /\ c_pc = "c_ok3"
    /\ Runs("consumer")
    /\ c_written
    /\ c_written' = FALSE
    /\ CommitOk
    /\ UNCHANGED <<inputs, panel_visible, overlay, f2_hist, model, current_request_id, exit_requested, queue,
                   output, soon, chain, written, m_pc, p_pc, p_text, c_text,
                   request_id, accepted, accepted_busy, sent, taken, outcomes,
                   pre>>

\* chat.py:228-233, 238-245: the last emit_in_terminal of an error is done
ConsumerCommitFail ==
    /\ c_pc \in {"c_http2", "c_exc1"}
    /\ Runs("consumer")
    /\ c_written
    /\ c_written' = FALSE
    /\ CommitFail
    /\ UNCHANGED <<inputs, panel_visible, overlay, f2_hist, model, current_request_id, exit_requested, queue,
                   output, soon, chain, written, m_pc, p_pc, p_text, c_text,
                   request_id, accepted, accepted_busy, sent, taken, outcomes,
                   pre>>

----------------------------------------------------------------------------

Next ==
    \/ MainStart
    \/ MainPutSentinel
    \/ MainFinish
    \/ SigInt
    \/ ProducerTop
    \/ ProducerWake
    \/ \E t \in inputs.lines : EnterKey(t)
    \/ \E t \in inputs.lines : AcceptLine(t)
    \/ CtrlC
    \/ CtrlD
    \/ ProducerEOF
    \/ ProducerRoute
    \/ TerminalStart
    \/ TerminalWrite
    \/ ConsumerGet
    \/ ConsumerHandle
    \/ ConsumerShown
    \/ ConsumerAppend
    \/ ConsumerCall
    \/ \E k \in {"ok", "http", "exc"}, r \in Replies : BackendReturn(k, r)
    \/ ConsumerResume
    \/ ConsumerEmitNext
    \/ ConsumerCommitOk
    \/ ConsumerCommitFail

Spec == Init /\ [][Next]_vars

SpecText == InitText /\ [][Next]_vars

SpecDeep == InitDeep /\ [][Next]_vars

SpecHist == InitHist /\ [][Next]_vars

SpecCmd == InitCmd /\ [][Next]_vars

\* F2 and the prompt's redraws change the panel only, and no other step
\* reads the panel's state: the runs with them are taken over one text
NextPanel ==
    \/ Next
    \/ F2
    \/ PanelRefresh

SpecSlash == InitSlash /\ [][Next]_vars

SpecPanel == InitPanel /\ [][NextPanel]_vars

\* the steps the event loop takes by itself: every step but the user's
\* keys and signals and the backend's return
LoopStep ==
    \/ MainStart
    \/ MainPutSentinel
    \/ MainFinish
    \/ ProducerTop
    \/ ProducerWake
    \/ ProducerEOF
    \/ ProducerRoute
    \/ TerminalStart
    \/ TerminalWrite
    \/ ConsumerGet
    \/ ConsumerHandle
    \/ ConsumerShown
    \/ ConsumerAppend
    \/ ConsumerCall
    \/ ConsumerResume
    \/ ConsumerEmitNext
    \/ ConsumerCommitOk
    \/ ConsumerCommitFail

\* api.py:26-38: the backend call returns, one way or another
BackendReturns == \E k \in {"ok", "http", "exc"}, r \in Replies : BackendReturn(k, r)

\* the event loop runs what is ready to run, and every backend call
\* returns in the end; the user is free to stay away from the keys
Fairness == WF_vars(LoopStep) /\ WF_vars(BackendReturns)

SpecCmdLive == InitCmd /\ [][Next]_vars /\ Fairness

SpecEpoch == InitEpoch /\ [][NextPanel]_vars

----------------------------------------------------------------------------
(* Properties                                                              *)

\* how many blocks tagged tag the terminal holds
NotesTagged(tag) == Cardinality({i \in 1..Len(output) : output[i].tag = tag})

\* the blocks emitted and not yet written
Pending == soon \o chain

\* how many emit calls there have been
Emits == NextId - 1

\* the block of the k-th emit call
EmittedNote(k) ==
    IF \E i \in 1..Len(written) : written[i] = k
    THEN output[CHOOSE i \in 1..Len(written) : written[i] = k]
    ELSE Pending[CHOOSE i \in 1..Len(Pending) : Pending[i].id = k].note

\* how many blocks tagged tag have been emitted
EmittedTagged(tag) ==
    Cardinality({k \in 1..Emits : EmittedNote(k).tag = tag})

\* the texts on the queue, without the closing None
QueueTexts == SelectSeq(queue, LAMBDA x : x # NoneItem)

\* handle_user_input is not running
ConsumerIdle == c_pc \in {"c_get", "c_done"}

\* C1: when the backend call of a request returns after the epoch has moved
\* past the request's handle, the return (reply or failure alike) leaves the
\* Conversation and BusyFlag as they were and handle_user_input is over; the
\* executor thread's own return touches neither.
C1_StaleReturnIsNoOp ==
    [][ /\ (c_pc = "c_await" /\ c_pc' # "c_await"
               /\ request_id # current_request_id)
           => (messages' = messages /\ busy' = busy /\ c_pc' = "c_get")
        /\ (call.state = "running" /\ call'.state # "running")
           => (messages' = messages /\ busy' = busy) ]_vars

\* a cancelled request's call has returned a reply and was dropped
C1_Witness ==
    /\ ev.op = "drop"
    /\ request_id < current_request_id
    /\ outcomes # <<>>
    /\ outcomes[Len(outcomes)].kind = "ok"
    /\ messages = <<UserTurn(MsgA)>>

\* C2: after a message is submitted and cancelled before its backend call
\* completes, the Conversation is as long as before the submission,
\* BusyFlag is false and one "interrupted" notice has been written; and so
\* it stays when the orphaned call returns.
C2_CancelRestoresConversation ==
    LET cancelled == ev.op = "cancel" /\ c_pc = "c_await" /\ call.state = "running"
        orphanBack == ev.op = "drop"
    IN  /\ (cancelled \/ orphanBack) => (Len(messages) = Len(pre) /\ ~busy)
        /\ cancelled =>
             /\ EmittedNote(Emits) = Note("interrupted")
             /\ EmittedNote(Emits - 1) # Note("interrupted")

\* C3: when the backend call of the current-epoch request fails, the
\* Conversation is back at its length before the request, BusyFlag is
\* false, the error has been written and consumer is at its queue again.
\* (The error is written after the request's "thinking" block was emitted.)
C3_FailureRollsBack ==
    ev.op = "commit_fail" =>
        /\ Len(messages) = Len(pre)
        /\ ~busy
        /\ \E i \in 1..Len(output) :
              /\ output[i].tag \in {"api_error_body", "error"}
              /\ \A k \in 1..Emits :
                    EmittedNote(k).tag = "thinking" => k < written[i]
        /\ c_pc = "c_get"

\* C4: when the backend call of the current-epoch request succeeds with
\* reply r for text t, the Conversation is the one before the request
\* followed by user:t and assistant:r, and BusyFlag is false.
C4_SuccessAppendsPair ==
    ev.op = "commit_ok" =>
        /\ messages = pre \o <<UserTurn(c_text),
                               AssistantTurn(outcomes[Len(outcomes)].reply)>>
        /\ ~busy

\* the Conversation that the texts, answered in order by the outcomes, make
RECURSIVE Expected(_, _)
Expected(texts, outs) ==
    IF texts = <<>> \/ outs = <<>> THEN <<>>
    ELSE (IF Head(outs).kind = "ok"
          THEN <<UserTurn(Head(texts)), AssistantTurn(Head(outs).reply)>>
          ELSE <<>>) \o Expected(Tail(texts), Tail(outs))

\* the user has submitted messages only, and interrupted nothing
OnlyMessages ==
    /\ \A i \in 1..Len(accepted) : ~StartsWithSlash(accepted[i])
    /\ EmittedTagged("interrupted") = 0

\* the request of handle_user_input has its user turn in the Conversation
InRequest == c_pc \in {"c_emit_thinking", "c_await", "c_ok1", "c_ok2", "c_ok3",
                       "c_http1", "c_http2", "c_exc1"}

\* the outcomes whose effect on the Conversation has been made
Committed == IF InRequest /\ call.state \in {"ok", "http", "exc"}
             THEN SubSeq(outcomes, 1, Len(outcomes) - 1) ELSE outcomes

\* C5: in a run of message submissions with any mix of replies and
\* failures, the Conversation holds the turns of the answered submissions
\* in the order they were submitted, followed only by the user turn of the
\* request in progress; with no request in progress every user turn has its
\* assistant turn.
C5_TurnsInSubmissionOrder ==
    OnlyMessages =>
        messages = Expected(sent, Committed)
                   \o (IF InRequest THEN <<UserTurn(c_text)>> ELSE <<>>)

\* a failed first message and an answered second one, nothing in progress
C5_Witness ==
    /\ OnlyMessages
    /\ ConsumerIdle
    /\ sent = <<MsgA, MsgB>>
    /\ Len(outcomes) = 2
    /\ outcomes[1].kind = "http"
    /\ outcomes[2].kind = "ok"
    /\ messages = <<UserTurn(MsgB), AssistantTurn("r")>>

\* C6: a line submitted while BusyFlag is true is routed as a command only
\* once BusyFlag is false, and consumer starts on a line (command or
\* message) only while BusyFlag is false.
C6_NoDispatchWhileBusy ==
    /\ (ev.op \in {"producer_cmd", "producer_exit"} /\ accepted_busy) => ~busy
    /\ ev.op \in {"consumer_cmd", "show"} => ~busy

\* C7: consumer takes the lines in the order producer queued them, one at a
\* time: what was taken, followed by what waits, is what was sent, and when
\* consumer starts on a line no backend call of an earlier line is pending.
C7_FifoOrder ==
    /\ sent = taken \o QueueTexts
    /\ c_pc = "c_handle" =>
          (call.state = "idle" /\ c_text = taken[Len(taken)])

\* two lines waited together and consumer has taken the older one
C7_Witness ==
    /\ ev.op = "get"
    /\ sent = <<MsgA, CmdClear, MsgA>>
    /\ taken = <<MsgA, CmdClear>>
    /\ queue = <<MsgA>>
    /\ c_pc = "c_handle"

\* str.split("\n"): the newline-delimited rows of a text
RECURSIVE SplitNewlineFrom(_, _)
SplitNewlineFrom(t, cur) ==
    IF t = <<>> THEN <<cur>>
    ELSE IF Head(t) = NL THEN <<cur>> \o SplitNewlineFrom(Tail(t), <<>>)
    ELSE SplitNewlineFrom(Tail(t), Append(cur, Head(t)))

RowsOf(t) == SplitNewlineFrom(t, <<>>)

\* every character of the text is white space
AllSpace(t) == \A i \in 1..Len(t) : IsSpace(t[i])

\* C8: a submission of more than 10 newline-delimited rows is queued as
\* its first 10 rows, with one truncation notice for it; one of at most 10
\* rows is queued as it is, with no truncation notice.
C8_TruncatedToFirstRows ==
    ev.op \in {"producer_msg", "producer_cmd"} =>
        /\ sent[Len(sent)] =
              IF Len(RowsOf(ev.text)) > MaxRows
              THEN JoinNL(FirstN(RowsOf(ev.text), MaxRows))
              ELSE ev.text
        /\ NotesTagged("truncated") =
              Cardinality({i \in 1..Len(accepted) :
                             /\ ~AllSpace(accepted[i])
                             /\ Len(RowsOf(accepted[i])) > MaxRows})

\* C9: no line on the queue, no user turn of the Conversation and no text
\* of a request is empty or white space only.
C9_NoBlankLine ==
    /\ \A i \in 1..Len(queue) : queue[i] = NoneItem \/ ~AllSpace(queue[i])
    /\ \A i \in 1..Len(messages) :
          messages[i].role = "user" => ~AllSpace(messages[i].content)
    /\ \A i \in 1..Len(taken) : ~AllSpace(taken[i])

\* how many /model commands the prompt has returned
ModelSubmissions ==
    Cardinality({i \in 1..Len(accepted) : Lower(Strip(accepted[i])) = CmdModel})

\* every text the prompt returned has been dealt with
AllProcessed == p_pc # "p_accepted" /\ QueueTexts = <<>> /\ ConsumerIdle

\* C10: every /model submission switches the model to the other identifier:
\* after n of them the model is the first identifier for even n and the
\* second for odd n, and it is never anything else.
C10_ModelAlternates ==
    /\ model \in {ModelChat, ModelCoder}
    /\ AllProcessed =>
          model = (IF ModelSubmissions % 2 = 0 THEN ModelChat ELSE ModelCoder)

\* the command a text is routed as
CommandOf(t) == Lower(Strip(t))

\* a command has just been routed, by producer or by consumer
Routed(cmd) ==
    ev.op \in {"producer_cmd", "consumer_cmd"} /\ CommandOf(ev.text) = cmd

\* C11: when a /clear has been routed the Conversation has length 0, and
\* when a /history has been routed the report it emitted states the length
\* the Conversation has at that moment.
C11_ClearAndHistory ==
    /\ Routed(CmdClear) => Len(messages) = 0
    /\ Routed(CmdHistory) =>
          EmittedNote(Emits) = NoteN("history", Len(messages))

\* a report of 1 turn, then a /clear, then a report of 0 turns
C11_Witness ==
    /\ Routed(CmdHistory)
    /\ EmittedNote(Emits) = NoteN("history", 0)
    /\ \E j, k \in 1..Emits :
          /\ j < k
          /\ EmittedNote(j) = NoteN("history", 1)
          /\ EmittedNote(k) = Note("cleared")

\* C12: an interrupt while BusyFlag is true cancels (the epoch goes up by
\* one, BusyFlag is cleared) and does not shut the program down; an
\* interrupt while BusyFlag is false shuts down and changes neither the
\* epoch nor the Conversation.
C12_InterruptByBusyFlag ==
    [][ (ev' # ev /\ ev'.op \in {"cancel", "interrupt_idle", "sigint"}) =>
           IF busy
           THEN /\ current_request_id' = current_request_id + 1
                /\ ~busy'
                /\ exit_requested' = exit_requested
                /\ m_pc' # "m_exit"
           ELSE /\ exit_requested' \/ m_pc' = "m_exit"
                /\ current_request_id' = current_request_id
                /\ messages' = messages ]_vars

\* the blocks a command that does not end the session emits
NoticeTags(cmd) ==
    CASE cmd = CmdHelp -> <<"help">>
      [] cmd = CmdClear -> <<"cleared">>
      [] cmd = CmdModel -> <<"model">>
      [] cmd = CmdHistory -> <<"history">>
      [] OTHER -> <<"unknown", "hint">>

\* how many emit calls there were before the notices of the command routed
\* last
EmitsBeforeNotice == Emits - Len(NoticeTags(CommandOf(ev.text)))

\* the newest emit calls are the notices of the command routed last
NoticeEmitted ==
    LET tags == NoticeTags(CommandOf(ev.text)) IN
    \A i \in 1..Len(tags) : EmittedNote(EmitsBeforeNotice + i).tag = tags[i]

\* C13: a routed command ends the session exactly when it is /exit or
\* /quit in any letter case; every other command, known or not, emits its
\* notice (an unknown one: "unknown command", then the help hint), leaves
\* the shutdown request as it was, and producer goes on to its next prompt.
C13_OnlyExitAndQuitTerminate ==
    [][ (ev' # ev /\ ev'.op \in {"producer_cmd", "producer_exit", "consumer_cmd"}) =>
           LET cmd == CommandOf(ev'.text)
           IN  IF cmd \in {CmdExit, CmdQuit}
               THEN /\ exit_requested'
                    /\ ev'.op = "producer_exit" => p_pc' = "p_done"
               ELSE /\ exit_requested' = exit_requested
                    /\ ev'.op # "producer_exit"
                    /\ ev'.op = "producer_cmd" => p_pc' = "p_top"
                    /\ EmitsBeforeNotice' = Emits
                    /\ NoticeEmitted' ]_vars

\* an unknown command was answered with its two notices and the session
\* went on; then /QUIT ended it
C13_Witness ==
    /\ ev.op = "producer_exit"
    /\ ev.text = CmdQuitUpper
    /\ accepted = <<CmdUnknown, CmdQuitUpper>>
    /\ exit_requested
    /\ \E k \in 1..Emits - 1 :
          EmittedNote(k).tag = "unknown" /\ EmittedNote(k + 1).tag = "hint"

----------------------------------------------------------------------------
\* C15: two F2 presses bring the panel's visibility and the number of rows
\* the prompt reserves for the overlay back to what they were before the
\* first of the two, whichever visibility they started from.
C15_TwoTogglesRestore ==
    (ev.op = "f2" /\ Len(f2_hist) = 2) => PanelShown = f2_hist[1]

\* two F2 presses that started from a hidden panel, on a wide terminal
C15_Witness ==
    /\ ev.op = "f2"
    /\ Len(f2_hist) = 2
    /\ f2_hist[1] = [visible |-> FALSE, rows |-> 0]
    /\ f2_hist[2] = [visible |-> TRUE, rows |-> PanelHeight]
    /\ ~panel_visible
    /\ ReservedRows(overlay) = 0

\* C16: a hidden panel reserves no row; a visible panel's overlay, as the
\* prompt shows it, has exactly PanelHeight rows, each of exactly width
\* characters before its line end, whatever the provider returned.
C16_OverlayShape ==
    /\ ~panel_visible => ReservedRows(overlay) = 0 /\ overlay.rows = <<>>
    /\ (panel_visible /\ p_pc = "p_prompt") =>
          /\ Len(overlay.rows) = PanelHeight
          /\ ReservedRows(overlay) = PanelHeight
          /\ \A i \in 1..Len(overlay.rows) :
                /\ Len(overlay.rows[i]) = overlay.width + 1
                /\ overlay.rows[i][overlay.width + 1] = NL
                /\ Count(overlay.rows[i], NL) = 1

\* the overlay of the provider that returns lines wider than asked, cut to
\* the width of a wide terminal
C16_Witness ==
    /\ panel_visible
    /\ p_pc = "p_prompt"
    /\ overlay.width = WideColumns
    /\ Len(overlay.rows) = PanelHeight
    /\ overlay.rows[PanelHeight] = [j \in 1..WideColumns |-> "w"] \o <<NL>>

----------------------------------------------------------------------------
\* C17: the Conversation is changed by a request's result (the assistant
\* turn appended, or the trailing user turn removed) only while the
\* request's handle equals the current epoch at that step; so a cancel
\* that comes after the backend call returned and before the commit
\* prevents the commit.
C17_CommitOnlyAtCurrentEpoch ==
    [][(ev' # ev /\ ev'.op \in {"commit_ok", "commit_fail"})
          => request_id = current_request_id]_vars

----------------------------------------------------------------------------
\* C18: the epoch never decreases; the step that starts a message's request
\* raises it by exactly one and takes the new value as the request's
\* handle, above every handle taken before; a cancel raises it by exactly
\* one; every other step (a command, a completion, a blank or cut
\* submission, an F2) leaves it as it is.
C18_EpochSteps ==
    [][/\ current_request_id' >= current_request_id
       /\ request_id' >= request_id
       /\ IF ev' # ev /\ ev'.op = "request"
          THEN /\ current_request_id' = current_request_id + 1
               /\ request_id' = current_request_id'
               /\ request_id' > request_id
          ELSE /\ request_id' = request_id
               /\ IF ev' # ev /\ ev'.op = "cancel"
                  THEN current_request_id' = current_request_id + 1
                  ELSE current_request_id' = current_request_id]_vars

\* a second request has started after a cancelled first one, with the
\* panel toggled off in between
C18_Witness ==
    /\ ev.op = "request"
    /\ request_id = 3
    /\ current_request_id = 3
    /\ EmittedTagged("interrupted") = 1
    /\ ~panel_visible
    /\ Len(f2_hist) = 1

----------------------------------------------------------------------------
\* C19: in every reachable state busy is true if and only if a request has
\* started, has not returned, and its handle equals the current epoch; so
\* busy is false when no request is in progress and after every cancel.
C19_BusyIffLiveRequest ==
    /\ busy <=> (InRequest /\ request_id = current_request_id)
    /\ ev.op = "cancel" => ~busy

\* busy during the second request of a run whose first was cancelled and
\* has returned
C19_Witness ==
    /\ busy
    /\ c_pc = "c_ok2"
    /\ request_id = 3
    /\ current_request_id = 3
    /\ EmittedTagged("interrupted") = 1

----------------------------------------------------------------------------
\* C20: at most one backend call is outstanding at any time, orphaned calls
\* counted: a step starts a backend call only when no earlier call is
\* still running or unread, and a running call ends only by returning, so
\* it is never left behind by handle_user_input.
C20_OneBackendCall ==
    [][/\ (ev' # ev /\ ev'.op \in {"call", "request"} /\ call'.state = "running")
            => call = NoCall
       /\ call.state = "running"
            => call'.state \in {"running", "ok", "http", "exc"}
       /\ (call.state = "running" /\ call'.state # "running")
            => Len(outcomes') = Len(outcomes) + 1]_vars

\* a call orphaned by a cancel is still running while the next message
\* waits in the queue
C20_Witness ==
    /\ call.state = "running"
    /\ c_pc = "c_await"
    /\ request_id # current_request_id
    /\ ~busy
    /\ queue # <<>>
    /\ Head(queue) # NoneItem

----------------------------------------------------------------------------
\* how many of the texts the prompt returned are routed as command cmd
Submitted(cmd) ==
    Cardinality({i \in 1..Len(accepted) : CommandOf(accepted[i]) = cmd})

\* C21: each submitted slash command is routed once: a /clear or /model
\* has emitted its notice, and so had its effect, at most as many times as
\* it was submitted, and consumer never routes a command that producer
\* has routed.
C21_CommandRoutedOnce ==
    /\ \A cmd \in {CmdClear, CmdModel} :
          EmittedTagged(NoticeTags(cmd)[1]) <= Submitted(cmd)
    /\ ev.op # "consumer_cmd"

----------------------------------------------------------------------------
\* the backend call of a cancelled request has not returned yet
OrphanRunning == call.state = "running" /\ request_id # current_request_id

\* C22: a cancel never waits on the orphaned backend call: while the
\* orphaned call runs, producer is not held in its busy wait, and when a
\* text is pending on the queue consumer is not held by the await of that
\* call.
C22_CancelNeverWaits ==
    OrphanRunning =>
        /\ ~busy
        /\ QueueTexts # <<>> => c_pc # "c_await"

----------------------------------------------------------------------------
\* a shutdown has been requested: /exit or /quit was routed or Ctrl-C came
\* at an idle prompt (exit_requested), or the prompt met the end of input
ShutdownRequested == exit_requested \/ p_pc \in {"p_eof", "p_done"}

\* chat_loop has returned, or the process was ended from outside by SIGINT
Terminated == m_pc \in {"m_done", "m_exit"}

\* C23: with every backend call returning in the end, once a shutdown is
\* requested producer shows no prompt any more, None is put on the queue
\* once and never twice, and chat_loop returns with consumer returned and
\* the queue empty (unless SIGINT ends the process before that).
C23_ShutdownTerminates ==
    /\ [](ShutdownRequested => p_pc \notin {"p_prompt", "p_sleep"})
    /\ [](Count(queue, NoneItem) <= 1)
    /\ [][ev' # ev /\ ev'.op = "close" => m_pc = "m_wait_producer" /\ m_pc' # m_pc]_vars
    /\ [](m_pc = "m_done" => c_pc = "c_done" /\ queue = <<>> /\ p_pc = "p_done")
    /\ ShutdownRequested ~> Terminated

\* chat_loop has returned after /exit, the message sent before it answered
C23_Witness ==
    /\ m_pc = "m_done"
    /\ c_pc = "c_done"
    /\ exit_requested
    /\ accepted = <<MsgA, CmdExit>>
    /\ Len(messages) = 2
    /\ ev.op = "finish"

----------------------------------------------------------------------------
\* C24: with every backend call returning in the end, busy never stays
\* true for ever: whenever it is true it becomes false later, and
\* producer's wait while busy ends (unless SIGINT ends the process first).
C24_BusyEnds ==
    /\ busy ~> (~busy \/ m_pc = "m_exit")
    /\ (p_pc = "p_sleep") ~> (p_pc # "p_sleep" \/ m_pc = "m_exit")

\* a request has just completed and cleared busy while producer was in
\* its wait
C24_Witness ==
    /\ ~busy
    /\ ev.op = "commit_ok"
    /\ p_pc = "p_sleep"
    /\ request_id = current_request_id
    /\ m_pc = "m_wait_producer"

----------------------------------------------------------------------------
\* the texts put on the queue that are messages, not commands
SentMessages == SelectSeq(sent, LAMBDA t : ~StartsWithSlash(t))

\* C25: None is the last item ever put on the queue; every text put before
\* it is taken and handled by consumer before consumer returns, a message
\* among them with its backend call made; and once None is put consumer
\* does get that far (unless SIGINT ends the process first).
C25_NothingDroppedAtShutdown ==
    /\ [](Count(queue, NoneItem) > 0 => queue[Len(queue)] = NoneItem)
    /\ [][Count(queue, NoneItem) > 0 => sent' = sent]_vars
    /\ [](c_pc = "c_done" =>
             /\ taken = sent
             /\ Len(outcomes) = Len(SentMessages)
             /\ call = NoCall)
    /\ (m_pc = "m_wait_consumer") ~> (c_pc = "c_done" \/ m_pc = "m_exit")

\* the request of a message that was still on the queue when None was put
\* has started
C25_Witness ==
    /\ ev.op = "request"
    /\ m_pc = "m_wait_consumer"
    /\ queue = <<NoneItem>>
    /\ busy
    /\ call.state = "running"

----------------------------------------------------------------------------
\* C26: in every reachable state the Conversation is a sequence of (user,
\* assistant) pairs with at most one more user turn at its end: the turns
\* at odd places are user turns, those at even places assistant turns.
C26_TurnsAlternate ==
    \A i \in 1..Len(messages) :
        messages[i].role = IF i % 2 = 1 THEN "user" ELSE "assistant"

----------------------------------------------------------------------------
\* C27: the step that routes a text beginning with "/" (by producer or by
\* consumer) appends no turn to the Conversation, starts no backend call
\* and leaves the epoch, the handle in use and busy as they were; unless
\* the command is /clear or /model it also leaves the Conversation and the
\* model as they were.
C27_CommandFrame ==
    [][(ev' # ev /\ ev'.op \in {"producer_cmd", "producer_exit", "consumer_cmd"}) =>
          /\ StartsWithSlash(ev'.text)
          /\ messages' \in {messages, <<>>}
          /\ call' = call
          /\ outcomes' = outcomes
          /\ current_request_id' = current_request_id
          /\ request_id' = request_id
          /\ busy' = busy
          /\ CommandOf(ev'.text) # CmdClear => messages' = messages
          /\ CommandOf(ev'.text) # CmdModel => model' = model]_vars

\* /history has been routed while a request was in flight
C27_Witness ==
    /\ ev.op = "producer_cmd"
    /\ CommandOf(ev.text) = CmdHistory
    /\ busy
    /\ call.state = "running"
    /\ Len(messages) = 1
    /\ EmittedNote(Emits) = NoteN("history", 1)

====
